---- MODULE Spec2Model ----
(***************************************************************************)
(* A model of the data-access pipeline of the air-quality visualisation:   *)
(* DataLoader (src/data-loader.js) and the callers of it in src/app.js.    *)
(*                                                                         *)
(* Text is modelled structurally.  A string is a sequence of one-character *)
(* strings, so that trim, includes, substring and concatenation are        *)
(* computed.  A storage root is a sequence of path tokens in which the     *)
(* separator "/" is a token of its own, so that endsWith('/') is computed. *)
(***************************************************************************)
EXTENDS Integers, Sequences, FiniteSets, TLC

\* ------------------------------------------------------------------ bounds
\* Number of loadDayData / loadMonthData invocations in one behaviour.
MaxCalls == 2
\* Number of setBasePath invocations in one behaviour.
MaxOverrides == 1
\* Number of data lines of a CSV text given to extractPollutantData.
MaxRows == 2
\* Largest days given to loadConsecutiveDays.
MaxDays == 2
\* Largest number of items given to a sampleData.
MaxPoints == 4
\* Largest maxPoints given to a sampleData.
MaxCount == 3
\* Largest number of records given to computeCorrelationMatrix.
MaxRecords == 3
\* Largest number of elements by which a time series given to
\* sampleTimeseriesData falls short of or exceeds its limit.
MaxOver == 10
\* Largest sampleRate given to sampleTimeseriesData.
MaxRate == 4

\* ------------------------------------------------------------------ text
SP == " "

IsSpace(ch) == ch = SP

IsDigit(ch) == ch \in {"0", "1", "2", "3", "4", "5", "6", "7", "8", "9"}

DigitVal(ch) ==
    CASE ch = "0" -> 0 [] ch = "1" -> 1 [] ch = "2" -> 2 [] ch = "3" -> 3
      [] ch = "4" -> 4 [] ch = "5" -> 5 [] ch = "6" -> 6 [] ch = "7" -> 7
      [] ch = "8" -> 8 [] ch = "9" -> 9

RECURSIVE TrimStart(_)
TrimStart(s) ==
    IF s # <<>> /\ IsSpace(Head(s)) THEN TrimStart(Tail(s)) ELSE s

RECURSIVE TrimEnd(_)
TrimEnd(s) ==
    IF s # <<>> /\ IsSpace(s[Len(s)]) THEN TrimEnd(SubSeq(s, 1, Len(s) - 1)) ELSE s

\* String.prototype.trim
Trim(s) == TrimEnd(TrimStart(s))

\* String.prototype.startsWith
StartsWith(s, p) == Len(p) <= Len(s) /\ SubSeq(s, 1, Len(p)) = p

\* String.prototype.includes
Includes(s, p) ==
    \E i \in 1..(Len(s) - Len(p) + 1) : SubSeq(s, i, i + Len(p) - 1) = p

\* String.prototype.substring(a, b), zero-based and end-exclusive as in the source
Substring(s, a, b) == SubSeq(s, a + 1, b)

\* ------------------------------------------------------------------ cells
\* A cell of a record: a number, an infinity, a string or undefined.
NumCell(n) == [t |-> "num", n |-> n, s |-> <<>>]
InfCell(sign) == [t |-> "inf", n |-> sign, s |-> <<>>]
StrCell(s) == [t |-> "str", n |-> 0, s |-> s]
Undefined == [t |-> "undef", n |-> 0, s |-> <<>>]
NaNCell == [t |-> "nan", n |-> 0, s |-> <<>>]

INFINITY == <<"I", "n", "f", "i", "n", "i", "t", "y">>

RECURSIVE DigitPrefix(_)
DigitPrefix(s) ==
    IF s # <<>> /\ IsDigit(Head(s)) THEN <<Head(s)>> \o DigitPrefix(Tail(s)) ELSE <<>>

RECURSIVE DecimalValue(_, _)
DecimalValue(ds, acc) ==
    IF ds = <<>> THEN acc ELSE DecimalValue(Tail(ds), 10 * acc + DigitVal(Head(ds)))

\* parseFloat on a string or undefined: leading white space is skipped, then
\* an optional sign, then "Infinity" or the longest prefix of decimal digits;
\* whatever follows is ignored.  Fractions and exponents are not modelled:
\* the numeric fields of the model are integers.
parseFloat(v) ==
    IF v = Undefined THEN NaNCell
    ELSE
        LET s0 == TrimStart(v.s)
            neg == s0 # <<>> /\ Head(s0) = "-"
            signed == s0 # <<>> /\ Head(s0) \in {"-", "+"}
            s1 == IF signed THEN Tail(s0) ELSE s0
            ds == DigitPrefix(s1)
        IN  IF StartsWith(s1, INFINITY) THEN InfCell(IF neg THEN -1 ELSE 1)
            ELSE IF ds = <<>> THEN NaNCell
            ELSE NumCell(IF neg THEN 0 - DecimalValue(ds, 0) ELSE DecimalValue(ds, 0))

\* Number(x) is NaN: the global isNaN coerces its argument first.  The empty
\* and the all-blank string coerce to 0, undefined coerces to NaN, a string
\* coerces to a number only when the whole of it is a numeric literal.
isNaN(c) ==
    CASE c.t = "num" -> FALSE
      [] c.t = "inf" -> FALSE
      [] c.t = "nan" -> TRUE
      [] c.t = "undef" -> TRUE
      [] c.t = "str" ->
            LET s == Trim(c.s)
                signed == s # <<>> /\ Head(s) \in {"-", "+"}
                body == IF signed THEN Tail(s) ELSE s
            IN  ~(s = <<>> \/ body = INFINITY
                    \/ (body # <<>> /\ DigitPrefix(body) = body))

\* JavaScript truthiness, as used by the || operator
Truthy(c) ==
    CASE c.t = "num" -> c.n # 0
      [] c.t = "inf" -> TRUE
      [] c.t = "str" -> c.s # <<>>
      [] OTHER -> FALSE

OrElse(a, b) == IF Truthy(a) THEN a ELSE b

\* ------------------------------------------------------------------ records
\* A record is an object: a sequence of <<key, cell>> pairs in insertion
\* order without duplicate keys.
Keys(row) == [i \in 1..Len(row) |-> row[i][1]]

hasOwnProperty(row, key) == \E i \in 1..Len(row) : row[i][1] = key

Get(row, key) ==
    IF hasOwnProperty(row, key)
    THEN row[CHOOSE i \in 1..Len(row) : row[i][1] = key][2]
    ELSE Undefined

Put(row, key, cell) ==
    IF hasOwnProperty(row, key)
    THEN [i \in 1..Len(row) |-> IF row[i][1] = key THEN <<key, cell>> ELSE row[i]]
    ELSE Append(row, <<key, cell>>)

\* Array.prototype.filter on a sequence of strings, keeping the non-empty ones
RECURSIVE NonEmpty(_)
NonEmpty(ss) ==
    IF ss = <<>> THEN <<>>
    ELSE IF Head(ss) # <<>> THEN <<Head(ss)>> \o NonEmpty(Tail(ss))
    ELSE NonEmpty(Tail(ss))

\* values[index] of an array of strings: undefined past the end
At(values, index) ==
    IF index <= Len(values) THEN StrCell(values[index]) ELSE Undefined

RECURSIVE BuildRow(_, _, _, _)
BuildRow(headers, values, k, row) ==
    IF k > Len(headers) THEN row
    ELSE
        LET raw == At(values, k)
            value == parseFloat(raw)
        IN  BuildRow(headers, values, k + 1,
                     Put(row, headers[k], IF isNaN(value) THEN raw ELSE value))

\* parseCSV on a text already split: a text is a sequence of lines and a line
\* the sequence of its comma-separated fields.  The first line gives the
\* headers (trimmed, the empty ones filtered out); every further line gives
\* one record, whose k-th header is paired with the line's k-th field.
parseCSV(text) ==
    LET headers == NonEmpty([i \in 1..Len(text[1]) |-> Trim(text[1][i])])
    IN  [headers |-> headers,
         data |-> [i \in 1..(Len(text) - 1) |->
                     BuildRow(headers,
                              [j \in 1..Len(text[i + 1]) |-> Trim(text[i + 1][j])],
                              1, <<>>)]]

\* ------------------------------------------------------------------ roots
SEP == "/"

\* './Dataset/', the default of the constructor
DefaultRoot == <<".", SEP, "Dataset", SEP>>

\* The fixed fallback roots of resolveBasePathIfNeeded, in their order
Fallbacks ==
    << <<".", SEP, "Dataset", SEP>>,
       <<".", SEP, "dataset", SEP>>,
       <<".", SEP, "data", SEP>>,
       <<SEP, "Dataset", SEP>>,
       <<SEP, "data", SEP>> >>

\* A root given by the page (?basePath=..., window.DATASET_BASE_PATH) or by a
\* caller of setBasePath: written without its trailing separator
CustomRoot == <<".", SEP, "mirror">>

\* path.endsWith('/')
endsWithSep(path) == path # <<>> /\ path[Len(path)] = SEP

\* path.endsWith('/') ? path : (path + '/')
rootNorm(path) == IF endsWithSep(path) THEN path ELSE Append(path, SEP)

\* A candidate list with the configured root behind the fallbacks
candidatesFallbacksFirst(configured) == Fallbacks \o <<configured>>

\* A candidate list that holds the configured root twice
candidatesConfiguredTwice(configured) == <<configured, configured>> \o Fallbacks

\* The candidate list built by one resolveBasePathIfNeeded call
candidates(configured) == <<configured>> \o Fallbacks

\* ------------------------------------------------------------------ dates
D0101 == <<"2", "0", "1", "3", "0", "1", "0", "1">>
D0115 == <<"2", "0", "1", "3", "0", "1", "1", "5">>

\* The dates the model's callers ask for
Dates == {D0101, D0115}

\* The month keys the model's callers ask for
Months == {Substring(D0101, 0, 6)}

\* The first day of a month: yearMonth + '01'
firstDayOf(yearMonth) == yearMonth \o <<"0", "1">>

\* ------------------------------------------------------------------ files
K_lat == <<"l", "a", "t">>
K_lon == <<"l", "o", "n">>
K_date == <<"d", "a", "t", "e">>
K_yearMonth == <<"y", "e", "a", "r", "M", "o", "n", "t", "h">>
K_day == <<"d", "a", "y">>
K_PM == <<"P", "M", "2", ".", "5">>

\* The text of a day's file as the loader's model serves it: a header line
\* and one data line
DayFileText ==
    << <<K_lat, K_lon, K_PM>>,
       << <<"3", "0">>, <<"1", "2", "0">>, <<"5", "5">> >> >>

\* A body that is not a table (an error page served with status 200): one
\* line, which parseCSV takes for the header line
GarbledText == << << <<"<", "h", "t", "m", "l", ">">> >> >>

\* What a fetch of a data file can settle to
FetchOutcomes == {"ok", "garbled", "httpError", "rejected"}

\* What a probe of a candidate root can settle to
ProbeOutcomes == {"ok", "httpError", "rejected"}

\* What parseCSV makes of the two bodies
DayFileData == parseCSV(DayFileText).data

GarbledData == parseCSV(GarbledText).data

\* A loadCSVFile without its try/catch: the error thrown on a bad status and
\* a rejected fetch leave it as exceptions
loadCSVFileUncaught(outcome) ==
    CASE outcome = "ok" -> [k |-> "value", data |-> DayFileData]
      [] outcome = "garbled" -> [k |-> "value", data |-> GarbledData]
      [] outcome = "httpError" -> [k |-> "throw", data |-> <<>>]
      [] outcome = "rejected" -> [k |-> "throw", data |-> <<>>]

\* loadCSVFile: the fetch, the status test, the body and the parse, inside
\* one try/catch that turns every failure into null
loadCSVFile(outcome) ==
    CASE outcome = "ok" -> [k |-> "value", data |-> DayFileData]
      [] outcome = "garbled" -> [k |-> "value", data |-> GarbledData]
      [] outcome = "httpError" -> [k |-> "null", data |-> <<>>]
      [] outcome = "rejected" -> [k |-> "null", data |-> <<>>]

\* !result || !result.data
failed(result) == result.k = "null"

\* The try/catch around one probe: resp && resp.ok, a rejection being ignored
probeOk(outcome) == outcome = "ok"

\* ------------------------------------------------------------------ state
VARIABLES
    dataCache,          \* this.dataCache: key -> reference of the cached array
    heap,               \* the arrays created so far: reference -> its records
    basePath,           \* this.basePath
    resolvedBasePath,   \* this.resolvedBasePath, NoRoot for null
    calls,              \* the invocations of loadDayData / loadMonthData
    override,           \* the root of the last effective setBasePath, or NoRoot
    overrides,          \* number of setBasePath invocations so far
    fetchCount,         \* per date, data-file fetches issued by loadDayData
    csvText,            \* the text of the file whose records are extracted
    pollutantName,      \* the variable asked of extractPollutantData
    rawData,            \* the records given to extractPollutantData
    points,             \* what extractPollutantData returned
    xpc,                \* "text", "records" or "points": how far extraction is
    startDate,          \* the startDate given to loadConsecutiveDays
    days,               \* the days given to loadConsecutiveDays
    availableDates,     \* availableDates of loadConsecutiveDays
    timeseriesData,     \* what loadConsecutiveDays returned
    spc,                \* "ready", "loading" or "returned": how far the series is
    sampleInput,        \* the data given to a sampleData
    maxPoints,          \* the maxPoints given to it
    sampleRate,         \* the sampleRate given to sampleTimeseriesData
    sampledData,        \* what it returned
    smpc,               \* "input", or the sampler that has run
    corrData,           \* the records given to computeCorrelationMatrix
    variables,          \* the variables given to it
    matrix,             \* what it returned
    cpc,                \* "input" or "matrix"
    thisCurrentDate,    \* this.currentDate of the application
    thisRawData,        \* this.rawData: the reference of an array, NoRef for null
    loads,              \* per invocation of loadDayData, the loadData awaiting it
    isAnimating,        \* this.isAnimating
    dateIndex           \* dateIndex of startAnimation, counted from 1

loaderVars == <<dataCache, heap, basePath, resolvedBasePath, calls, override,
                overrides, fetchCount>>

xvars == <<csvText, pollutantName, rawData, points, xpc>>

seriesVars == <<startDate, days, availableDates, timeseriesData, spc>>

sampleVars == <<sampleInput, maxPoints, sampleRate, sampledData, smpc>>

corrVars == <<corrData, variables, matrix, cpc>>

appVars == <<thisCurrentDate, thisRawData, loads, isAnimating, dateIndex>>

\* What the steps of loadDayData and loadMonthData leave alone
callerVars == <<xvars, seriesVars, sampleVars, corrVars, appVars>>

vars == <<loaderVars, callerVars>>

NoRoot == <<>>
NoRef == 0

Slots == 1..MaxCalls

IdleCall ==
    [pc |-> "idle", kind |-> "none", key |-> <<>>, root |-> NoRoot,
     cands |-> <<>>, idx |-> 0, ret |-> NoRef, res |-> "none",
     fetches |-> 0, rkind |-> "none", rret |-> NoRoot, after |-> {}]

\* Invocations take the slots in the order they start: slot c is free when
\* it is idle and every slot before it has been taken
free(c) == calls[c].pc = "idle" /\ \A b \in 1..(c - 1) : calls[b].pc # "idle"

\* A loader whose cache check never hits
cacheHasNever(key) == FALSE

\* The invocations that have returned already: what a starting invocation
\* is later than
returned == {b \in Slots : calls[b].pc = "done"}

\* An invocation that has returned: its locals are gone, what remains is
\* what it was asked, what it returned and how
returnedCall(call, ref, res) ==
    [IdleCall EXCEPT !.pc = "done", !.kind = call.kind, !.key = call.key,
                     !.ret = ref, !.res = res, !.fetches = call.fetches,
                     !.after = call.after]

\* Map.prototype.has / get on this.dataCache
cacheHas(key) == key \in DOMAIN dataCache

cacheGet(key) == dataCache[key]

\* Map.prototype.set
cacheSet(cache, key, ref) ==
    [k \in (DOMAIN cache) \cup {key} |-> IF k = key THEN ref ELSE cache[k]]

\* (this.resolvedBasePath || this.basePath)
rootInForce(resolved, base) == IF resolved # NoRoot THEN resolved ELSE base

\* The constructor: an empty cache, the root from the page or the default,
\* nothing resolved yet
Init ==
    /\ dataCache = <<>>
    /\ heap = <<>>
    /\ basePath \in {DefaultRoot, CustomRoot}
    /\ resolvedBasePath = NoRoot
    /\ calls = [c \in Slots |-> IdleCall]
    /\ override = NoRoot
    /\ overrides = 0
    /\ fetchCount = [d \in Dates |-> 0]
    /\ csvText = <<>>
    /\ pollutantName = <<>>
    /\ rawData = <<>>
    /\ points = <<>>
    /\ xpc = "none"
    /\ startDate = <<>>
    /\ days = 0
    /\ availableDates = <<>>
    /\ timeseriesData = <<>>
    /\ spc = "none"
    /\ sampleInput = <<>>
    /\ maxPoints = 0
    /\ sampleRate = 0
    /\ sampledData = <<>>
    /\ smpc = "none"
    /\ corrData = <<>>
    /\ variables = <<>>
    /\ matrix = <<>>
    /\ cpc = "none"
    /\ thisCurrentDate = <<>>
    /\ thisRawData = 0
    /\ loads = <<>>
    /\ isAnimating = FALSE
    /\ dateIndex = 0

\* A stamping that leaves out the day of the month
stampDayWithoutDay(data, yearMonthDay) ==
    [i \in 1..Len(data) |->
        Put(Put(data[i], K_date, StrCell(yearMonthDay)),
            K_yearMonth, StrCell(Substring(yearMonthDay, 0, 6)))]

\* date / yearMonth / day stamped on every record of a day's result
stampDay(data, yearMonthDay) ==
    [i \in 1..Len(data) |->
        Put(Put(Put(data[i], K_date, StrCell(yearMonthDay)),
                K_yearMonth, StrCell(Substring(yearMonthDay, 0, 6))),
            K_day, StrCell(Substring(yearMonthDay, 6, 8)))]

\* setBasePath(path): ignored unless path is a non-empty string
SetBasePath(path) ==
    /\ overrides < MaxOverrides
    /\ overrides' = overrides + 1
    /\ IF Len(path) > 0
       THEN /\ basePath' = rootNorm(path)
            /\ resolvedBasePath' = rootNorm(path)
            /\ override' = rootNorm(path)
       ELSE UNCHANGED <<basePath, resolvedBasePath, override>>
    /\ UNCHANGED <<dataCache, heap, calls, fetchCount>>
    /\ UNCHANGED callerVars

\* The first data-file fetch of a loadDayData call, from the root in force
issueFirst(c, key) ==
    /\ calls' = [calls EXCEPT ![c] =
                    [IdleCall EXCEPT !.pc = "fetch1", !.kind = "day", !.key = key,
                                     !.after = returned,
                                     !.root = rootInForce(resolvedBasePath, basePath),
                                     !.fetches = 1]]
    /\ fetchCount' = [fetchCount EXCEPT ![key] = @ + 1]
    /\ UNCHANGED <<dataCache, heap>>

\* The cache check that opens loadDayData
returnCached(c, key) ==
    /\ calls' = [calls EXCEPT ![c] =
                    [IdleCall EXCEPT !.pc = "done", !.kind = "day", !.key = key,
                                     !.after = returned,
                                     !.ret = cacheGet(key), !.res = "hit"]]
    /\ UNCHANGED <<dataCache, heap, fetchCount>>

\* loadDayData(yearMonthDay) up to its first suspension
StartLoadDayData(c, key) ==
    /\ free(c)
    /\ IF cacheHas(key) THEN returnCached(c, key) ELSE issueFirst(c, key)
    /\ UNCHANGED <<basePath, resolvedBasePath, override, overrides>>
    /\ UNCHANGED callerVars

\* The end of loadDayData once the data file has been read: the records are
\* stamped, the array is cached under the date and returned
finishLoaded(c, data) ==
    LET key == calls[c].key
        ref == Len(heap) + 1
    IN  /\ heap' = Append(heap, stampDay(data, key))
        /\ dataCache' = cacheSet(dataCache, key, ref)
        /\ calls' = [calls EXCEPT ![c] = returnedCall(calls[c], ref, "loaded")]

\* A loader that caches the empty result of a day it could not load
finishMissingCached(c) ==
    LET ref == Len(heap) + 1
    IN  /\ heap' = Append(heap, <<>>)
        /\ dataCache' = cacheSet(dataCache, calls[c].key, ref)
        /\ calls' = [calls EXCEPT ![c] = returnedCall(calls[c], ref, "missing")]

\* The end of loadDayData when the retry has failed too: a warning and a new
\* empty array, the cache left alone
finishMissing(c) ==
    LET ref == Len(heap) + 1
    IN  /\ heap' = Append(heap, <<>>)
        /\ dataCache' = dataCache
        /\ calls' = [calls EXCEPT ![c] = returnedCall(calls[c], ref, "missing")]

\* An exception leaving loadDayData: the promise of the call is rejected
finishThrown(c) ==
    /\ calls' = [calls EXCEPT ![c].pc = "threw"]
    /\ UNCHANGED <<heap, dataCache>>

\* A retry built from the root the first attempt was built from
issueRetryStale(c, resolved, base, rkind, rret) ==
    /\ calls' = [calls EXCEPT ![c].pc = "fetch2",
                              ![c].fetches = @ + 1,
                              ![c].rkind = rkind, ![c].rret = rret]
    /\ fetchCount' = [fetchCount EXCEPT ![calls[c].key] = @ + 1]

\* The retry of the data file, from the root in force when it is issued;
\* rkind and rret record how resolveBasePathIfNeeded returned and what
issueRetry(c, resolved, base, rkind, rret) ==
    /\ calls' = [calls EXCEPT ![c].pc = "fetch2",
                              ![c].root = rootInForce(resolved, base),
                              ![c].fetches = @ + 1,
                              ![c].rkind = rkind, ![c].rret = rret]
    /\ fetchCount' = [fetchCount EXCEPT ![calls[c].key] = @ + 1]

\* resolveBasePathIfNeeded up to its first suspension: an early return when a
\* root is resolved already, else the candidate list and the first probe
beginResolve(c) ==
    IF resolvedBasePath # NoRoot
    THEN issueRetry(c, resolvedBasePath, basePath, "early", resolvedBasePath)
    ELSE /\ calls' = [calls EXCEPT ![c].pc = "probe",
                                   ![c].cands = candidates(basePath),
                                   ![c].idx = 1]
         /\ UNCHANGED fetchCount

\* A loader that hands on the first fetches in the order they were issued:
\* a fetch that has settled waits for the fetches issued before it
SettleFirstInTurn(c, outcome) ==
    /\ calls[c].pc = "fetch1"
    /\ \A b \in 1..(c - 1) : calls[b].pc # "fetch1"
    /\ LET result == loadCSVFile(outcome)
       IN  CASE result.k = "throw" ->
                    finishThrown(c) /\ UNCHANGED fetchCount
             [] result.k # "throw" /\ failed(result) ->
                    beginResolve(c) /\ UNCHANGED <<heap, dataCache>>
             [] OTHER ->
                    finishLoaded(c, result.data) /\ UNCHANGED fetchCount
    /\ UNCHANGED <<basePath, resolvedBasePath, override, overrides>>
    /\ UNCHANGED callerVars

\* The first data-file fetch settles
SettleFirst(c, outcome) ==
    /\ calls[c].pc = "fetch1"
    /\ LET result == loadCSVFile(outcome)
       IN  CASE result.k = "throw" ->
                    finishThrown(c) /\ UNCHANGED fetchCount
             [] result.k # "throw" /\ failed(result) ->
                    beginResolve(c) /\ UNCHANGED <<heap, dataCache>>
             [] OTHER ->
                    finishLoaded(c, result.data) /\ UNCHANGED fetchCount
    /\ UNCHANGED <<basePath, resolvedBasePath, override, overrides>>
    /\ UNCHANGED callerVars

\* A probe answered ok: its root is adopted, resolveBasePathIfNeeded returns
\* and loadDayData issues the retry
adoptRoot(c) ==
    LET root == rootNorm(calls[c].cands[calls[c].idx])
    IN  /\ resolvedBasePath' = root
        /\ basePath' = root
        /\ issueRetry(c, root, root, "adopted", root)

\* A probe failed: the next candidate is probed
nextProbe(c) ==
    /\ calls' = [calls EXCEPT ![c].idx = @ + 1]
    /\ UNCHANGED <<basePath, resolvedBasePath, fetchCount>>

\* A resolver that remembers the configured root as resolved when every
\* candidate has failed
giveUpResolveRemembers(c) ==
    /\ basePath' = basePath
    /\ resolvedBasePath' = rootNorm(basePath)
    /\ issueRetry(c, rootNorm(basePath), basePath, "allFailed", basePath)

\* The last probe failed: resolveBasePathIfNeeded returns this.basePath with
\* nothing assigned, and loadDayData issues the retry
giveUpResolve(c) ==
    /\ UNCHANGED <<basePath, resolvedBasePath>>
    /\ issueRetry(c, resolvedBasePath, basePath, "allFailed", basePath)

\* One probe of resolveBasePathIfNeeded settles
SettleProbe(c, outcome) ==
    /\ calls[c].pc = "probe"
    /\ IF probeOk(outcome) THEN adoptRoot(c)
       ELSE IF calls[c].idx < Len(calls[c].cands) THEN nextProbe(c)
       ELSE giveUpResolve(c)
    /\ UNCHANGED <<dataCache, heap, override, overrides>>
    /\ UNCHANGED callerVars

\* The retried data-file fetch settles
SettleRetry(c, outcome) ==
    /\ calls[c].pc = "fetch2"
    /\ LET result == loadCSVFile(outcome)
       IN  CASE result.k = "throw" -> finishThrown(c)
             [] result.k # "throw" /\ failed(result) -> finishMissing(c)
             [] OTHER -> finishLoaded(c, result.data)
    /\ UNCHANGED <<basePath, resolvedBasePath, override, overrides, fetchCount>>
    /\ UNCHANGED callerVars

\* loadMonthData(yearMonth) up to its suspension: the cache check, then one
\* fetch of the month's first day from this.basePath
StartLoadMonthData(c, yearMonth) ==
    /\ free(c)
    /\ calls' = [calls EXCEPT ![c] =
                    IF cacheHas(yearMonth)
                    THEN [IdleCall EXCEPT !.pc = "done", !.kind = "month",
                                          !.key = yearMonth,
                                          !.ret = cacheGet(yearMonth), !.res = "hit"]
                    ELSE [IdleCall EXCEPT !.pc = "mfetch", !.kind = "month",
                                          !.key = yearMonth, !.root = basePath,
                                          !.fetches = 1]]
    /\ UNCHANGED <<dataCache, heap, basePath, resolvedBasePath, override,
                   overrides, fetchCount>>
    /\ UNCHANGED callerVars

\* date / yearMonth stamped by loadMonthData on the rows it copies
stampMonth(data, yearMonth) ==
    [i \in 1..Len(data) |->
        Put(Put(data[i], K_date, StrCell(firstDayOf(yearMonth))),
            K_yearMonth, StrCell(yearMonth))]

\* The fetch of loadMonthData settles: allData, empty on failure, is cached
\* under the month and returned
SettleMonth(c, outcome) ==
    /\ calls[c].pc = "mfetch"
    /\ LET result == loadCSVFile(outcome)
           ref == Len(heap) + 1
           allData == IF failed(result) THEN <<>>
                      ELSE stampMonth(result.data, calls[c].key)
       IN  IF result.k = "throw"
           THEN finishThrown(c)
           ELSE /\ heap' = Append(heap, allData)
                /\ dataCache' = cacheSet(dataCache, calls[c].key, ref)
                /\ calls' = [calls EXCEPT ![c] =
                                returnedCall(calls[c], ref,
                                             IF failed(result) THEN "missing"
                                             ELSE "loaded")]
    /\ UNCHANGED <<basePath, resolvedBasePath, override, overrides, fetchCount>>
    /\ UNCHANGED callerVars

\* The arguments callers give to setBasePath: a root and the empty string
OverridePaths == {CustomRoot, <<>>}

Next ==
    \/ \E c \in Slots, d \in Dates : StartLoadDayData(c, d)
    \/ \E c \in Slots, o \in FetchOutcomes : SettleFirst(c, o)
    \/ \E c \in Slots, o \in ProbeOutcomes : SettleProbe(c, o)
    \/ \E c \in Slots, o \in FetchOutcomes : SettleRetry(c, o)
    \/ \E c \in Slots, m \in Months : StartLoadMonthData(c, m)
    \/ \E c \in Slots, o \in FetchOutcomes : SettleMonth(c, o)
    \/ \E p \in OverridePaths : SetBasePath(p)

Spec == Init /\ [][Next]_vars

\* ------------------------------------------------------------------ extraction
K_TEMP == <<"T", "E", "M", "P">>
K_TEMP_K == <<"T", "E", "M", "P", "(", "K", ")">>
K_RH == <<"R", "H">>
K_RH_pct == <<"R", "H", "(", "%", ")">>
K_U == <<"U">>
K_U_ms == <<"U", "(", "m", "/", "s", ")">>
K_V == <<"V">>
K_V_ms == <<"V", "(", "m", "/", "s", ")">>

NoKey == <<>>

\* The column names extractPollutantData tries before any other, in order
possibleKeys(name) ==
    << name,
       Trim(name),
       <<SP>> \o name,
       name \o <<SP>>,
       name \o <<"(">>,
       <<SP>> \o name \o <<"(">> >>

\* The first element of a sequence that satisfies a test, or NoKey
RECURSIVE firstOwn(_, _)
firstOwn(keys, row) ==
    IF keys = <<>> THEN NoKey
    ELSE IF hasOwnProperty(row, Head(keys)) THEN Head(keys)
    ELSE firstOwn(Tail(keys), row)

RECURSIVE firstIncluding(_, _)
firstIncluding(keys, part) ==
    IF keys = <<>> THEN NoKey
    ELSE IF Includes(Head(keys), part) THEN Head(keys)
    ELSE firstIncluding(Tail(keys), part)

\* A resolver without the substring fallback
matchedKeyDirectOnly(data, name) == firstOwn(possibleKeys(name), data[1])

\* The column extractPollutantData reads: the first of possibleKeys the first
\* record owns, else the first column of the first record, in stored order,
\* whose name includes the trimmed variable name
matchedKey(data, name) ==
    LET direct == firstOwn(possibleKeys(name), data[1])
    IN  IF direct # NoKey THEN direct
        ELSE firstIncluding(Keys(data[1]), Trim(name))

\* The projection of one record
toPoint(row, key) ==
    [lat |-> Get(row, K_lat),
     lon |-> Get(row, K_lon),
     value |-> Get(row, key),
     date |-> Get(row, K_date),
     yearMonth |-> Get(row, K_yearMonth),
     temp |-> OrElse(Get(row, K_TEMP), Get(row, K_TEMP_K)),
     rh |-> OrElse(Get(row, K_RH), Get(row, K_RH_pct)),
     u |-> OrElse(Get(row, K_U), Get(row, K_U_ms)),
     v |-> OrElse(Get(row, K_V), Get(row, K_V_ms))]

\* d.value != null && !isNaN(d.value)
keepsValue(value) == value # Undefined /\ ~isNaN(value)

RECURSIVE filterPoints(_)
filterPoints(ps) ==
    IF ps = <<>> THEN <<>>
    ELSE IF keepsValue(Head(ps).value) THEN <<Head(ps)>> \o filterPoints(Tail(ps))
    ELSE filterPoints(Tail(ps))

\* extractPollutantData(rawData, pollutantName)
extractPollutantData(data, name) ==
    IF data = <<>> THEN <<>>
    ELSE
        LET key == matchedKey(data, name)
        IN  IF key = NoKey THEN <<>>
            ELSE filterPoints([i \in 1..Len(data) |-> toPoint(data[i], key)])

\* Column names of the files the extraction is checked on
K_PM_unit == K_PM \o <<"(", "u", "g", ")">>
K_PM10 == <<"P", "M", "1", "0">>
K_xPM == <<"x">> \o K_PM

\* The header lines: the decorated column alone, the plain column, a column
\* that merely contains the name ahead of the plain one and ahead of the
\* decorated one, no such column, an empty column name between two others
HeaderLines ==
    { <<K_lat, K_lon, K_PM_unit>>,
      <<K_lat, <<>>, K_lon, K_PM>>,
      <<K_lat, K_lon, K_PM>>,
      <<K_lat, K_lon, K_xPM, K_PM>>,
      <<K_lat, K_lon, K_xPM, K_PM_unit>>,
      <<K_lat, K_lon, K_PM10>> }

\* The fields a data line can hold in a pollutant column: numbers, a number
\* followed by text, the marker NA, nothing, a blank, an infinity
Fields ==
    { <<"5", "5">>, <<"0">>, <<"-", "7">>, <<"1", "2", "a">>, <<"N", "A">>,
      <<>>, <<SP>>, INFINITY }

\* The data lines: two coordinates and up to two pollutant fields
DataLines ==
    {<<<<"3", "0">>, <<"1", "2", "0">>>>}
      \cup {<<<<"3", "0">>, <<"1", "2", "0">>, f>> : f \in Fields}
      \cup {<<<<"3", "0">>, <<"1", "2", "0">>, f, <<"9">>>> : f \in {<<"5", "5">>, <<"N", "A">>}}

\* The texts: a header line and at most MaxRows data lines
Texts ==
    {<<h>> \o ls : h \in HeaderLines,
                   ls \in UNION {[1..n -> DataLines] : n \in 0..MaxRows}}

\* The variable names asked for
Names == {K_PM, <<SP>> \o K_PM, <<"S", "O", "2">>}

\* A fresh loader, and a text and a variable name to extract
InitExtract ==
    /\ dataCache = <<>>
    /\ heap = <<>>
    /\ basePath = DefaultRoot
    /\ resolvedBasePath = NoRoot
    /\ calls = [c \in Slots |-> IdleCall]
    /\ override = NoRoot
    /\ overrides = 0
    /\ fetchCount = [d \in Dates |-> 0]
    /\ csvText \in Texts
    /\ pollutantName \in Names
    /\ rawData = <<>>
    /\ points = <<>>
    /\ xpc = "text"
    /\ startDate = <<>>
    /\ days = 0
    /\ availableDates = <<>>
    /\ timeseriesData = <<>>
    /\ spc = "none"
    /\ sampleInput = <<>>
    /\ maxPoints = 0
    /\ sampleRate = 0
    /\ sampledData = <<>>
    /\ smpc = "none"
    /\ corrData = <<>>
    /\ variables = <<>>
    /\ matrix = <<>>
    /\ cpc = "none"
    /\ thisCurrentDate = <<>>
    /\ thisRawData = 0
    /\ loads = <<>>
    /\ isAnimating = FALSE
    /\ dateIndex = 0

\* The day's records as loadDayData hands them on: parsed and stamped
ParseText ==
    /\ xpc = "text"
    /\ rawData' = stampDay(parseCSV(csvText).data, D0101)
    /\ xpc' = "records"
    /\ UNCHANGED <<csvText, pollutantName, points, loaderVars, seriesVars, sampleVars,
                 corrVars, appVars>>

\* The caller extracts the variable from the records
Extract ==
    /\ xpc = "records"
    /\ points' = extractPollutantData(rawData, pollutantName)
    /\ xpc' = "points"
    /\ UNCHANGED <<csvText, pollutantName, rawData, loaderVars, seriesVars, sampleVars,
                 corrVars, appVars>>

NextExtract == ParseText \/ Extract

SpecExtract == InitExtract /\ [][NextExtract]_vars

\* ------------------------------------------------------------------ series
\* A Date at local midnight: year, month (1..12) and day of the month
DateOf(y, m, d) == [y |-> y, m |-> m, d |-> d]

isLeap(y) == (y % 4 = 0 /\ y % 100 # 0) \/ y % 400 = 0

daysInMonth(y, m) ==
    IF m = 2 THEN (IF isLeap(y) THEN 29 ELSE 28)
    ELSE IF m \in {4, 6, 9, 11} THEN 30 ELSE 31

\* Date.prototype.getDate
getDate(date) == date.d

\* Date.prototype.setDate(n): a day of the month outside the month moves the
\* date into the months before or after
RECURSIVE setDate(_, _)
setDate(date, n) ==
    IF n < 1
    THEN LET py == IF date.m = 1 THEN date.y - 1 ELSE date.y
             pm == IF date.m = 1 THEN 12 ELSE date.m - 1
         IN  setDate(DateOf(py, pm, 1), n + daysInMonth(py, pm))
    ELSE IF n > daysInMonth(date.y, date.m)
    THEN LET ny == IF date.m = 12 THEN date.y + 1 ELSE date.y
             nm == IF date.m = 12 THEN 1 ELSE date.m + 1
         IN  setDate(DateOf(ny, nm, 1), n - daysInMonth(date.y, date.m))
    ELSE DateOf(date.y, date.m, n)

\* a >= b on two Dates: their timestamps are compared
dateGE(a, b) ==
    \/ a.y > b.y
    \/ a.y = b.y /\ a.m > b.m
    \/ a.y = b.y /\ a.m = b.m /\ a.d >= b.d

\* A number written in decimal and padded with zeros to a width
RECURSIVE Digits(_, _)
Digits(n, width) ==
    IF width = 0 THEN <<>>
    ELSE LET last == n % 10
             char == CASE last = 0 -> "0" [] last = 1 -> "1" [] last = 2 -> "2"
                       [] last = 3 -> "3" [] last = 4 -> "4" [] last = 5 -> "5"
                       [] last = 6 -> "6" [] last = 7 -> "7" [] last = 8 -> "8"
                       [] last = 9 -> "9"
         IN  Digits(n \div 10, width - 1) \o <<char>>

\* d3.timeFormat("%Y%m%d")
formatDate(date) == Digits(date.y, 4) \o Digits(date.m, 2) \o Digits(date.d, 2)

\* d3.timeParse("%Y%m%d") on a string of eight digits
parseDate(s) ==
    DateOf(DecimalValue(Substring(s, 0, 4), 0),
           DecimalValue(Substring(s, 4, 6), 0),
           DecimalValue(Substring(s, 6, 8), 0))

\* a < b on two strings of digits: the first differing character decides, a
\* proper prefix is smaller
RECURSIVE strLess(_, _)
strLess(a, b) ==
    IF b = <<>> THEN FALSE
    ELSE IF a = <<>> THEN TRUE
    ELSE IF Head(a) = Head(b) THEN strLess(Tail(a), Tail(b))
    ELSE DigitVal(Head(a)) < DigitVal(Head(b))

\* '20130101', the start of the data set
LowerBound == D0101

\* The while loop of loadConsecutiveDays: the date is pushed, the day moved
\* back by one, and only then is the pushed date tested against the bound
RECURSIVE enumerateDates(_, _, _)
enumerateDates(currentDate, endDate, pushed) ==
    IF ~dateGE(currentDate, endDate) THEN pushed
    ELSE
        LET dateStr == formatDate(currentDate)
            previous == setDate(currentDate, getDate(currentDate) - 1)
        IN  IF strLess(dateStr, LowerBound) THEN Append(pushed, dateStr)
            ELSE enumerateDates(previous, endDate, Append(pushed, dateStr))

\* availableDates of loadConsecutiveDays(start, n)
datesOf(start, n) ==
    LET first == parseDate(start)
    IN  enumerateDates(first, setDate(first, getDate(first) - n), <<>>)

\* The dates the time series is asked to end at: the first day of the data
\* set, the day after it, and the first day of a month
SeriesStarts ==
    { D0101,
      <<"2", "0", "1", "3", "0", "1", "0", "2">>,
      <<"2", "0", "1", "3", "0", "3", "0", "1">> }

\* Every date loadConsecutiveDays can enumerate in the model
SeriesDates ==
    UNION {{datesOf(s, n)[i] : i \in 1..Len(datesOf(s, n))} :
              s \in SeriesStarts, n \in 1..MaxDays}

\* One invocation of loadDayData per enumerated date
SeriesSlots == 1..(MaxDays + 1)

\* String.prototype.localeCompare on two strings of digits
localeCompare(a, b) == IF a = b THEN 0 ELSE IF strLess(a, b) THEN -1 ELSE 1

\* A comparator that puts the oldest record first
compareDatesAscending(a, b) == localeCompare(Get(a, K_date).s, Get(b, K_date).s)

\* (a, b) => b.date.localeCompare(a.date)
compareDates(a, b) == localeCompare(Get(b, K_date).s, Get(a, K_date).s)

\* Array.prototype.sort is stable: a record goes behind the records it does
\* not have to precede
RECURSIVE insertRow(_, _)
insertRow(sorted, row) ==
    IF sorted = <<>> THEN <<row>>
    ELSE IF compareDates(Head(sorted), row) <= 0
         THEN <<Head(sorted)>> \o insertRow(Tail(sorted), row)
         ELSE <<row>> \o sorted

RECURSIVE sortByDate(_, _)
sortByDate(rows, sorted) ==
    IF rows = <<>> THEN sorted
    ELSE sortByDate(Tail(rows), insertRow(sorted, Head(rows)))

\* A join that takes the result of the first date alone
pushFirst(c, n) ==
    IF c > n \/ calls[c].pc = "threw" THEN <<>> ELSE heap[calls[c].ret]

\* allData.push(...data) over the results, in the order of availableDates.
\* The promise of the c-th date settles to the array loadDayData returned,
\* or to an empty one when it threw
RECURSIVE pushAll(_, _)
pushAll(c, n) ==
    IF c > n THEN <<>>
    ELSE (IF calls[c].pc = "threw" THEN <<>> ELSE heap[calls[c].ret])
            \o pushAll(c + 1, n)

\* loadDayData up to its first suspension, as the state of an invocation
startedCall(key) ==
    IF cacheHas(key)
    THEN [IdleCall EXCEPT !.pc = "done", !.kind = "day", !.key = key,
                          !.ret = cacheGet(key), !.res = "hit"]
    ELSE [IdleCall EXCEPT !.pc = "fetch1", !.kind = "day", !.key = key,
                          !.root = rootInForce(resolvedBasePath, basePath),
                          !.fetches = 1]

\* loadConsecutiveDays(startDate, days) up to its suspension: the dates are
\* enumerated and loadDayData is called for each of them, in order
StartLoadConsecutiveDays ==
    /\ spc = "ready"
    /\ LET dates == datesOf(startDate, days)
       IN  /\ availableDates' = dates
           /\ calls' = [c \in DOMAIN calls |->
                           IF c <= Len(dates) THEN startedCall(dates[c])
                           ELSE calls[c]]
           /\ fetchCount' = [d \in DOMAIN fetchCount |->
                               IF (\E c \in 1..Len(dates) : dates[c] = d)
                                    /\ ~cacheHas(d)
                               THEN fetchCount[d] + 1 ELSE fetchCount[d]]
    /\ spc' = "loading"
    /\ UNCHANGED <<dataCache, heap, basePath, resolvedBasePath, override, overrides>>
    /\ UNCHANGED <<startDate, days, timeseriesData, xvars, sampleVars, corrVars,
                   appVars>>

\* loadConsecutiveDays after Promise.all, which waits until every promise
\* given to it has settled: the results are joined, sorted by date, newest
\* first, and returned
FinishLoadConsecutiveDays ==
    /\ spc = "loading"
    /\ \A c \in 1..Len(availableDates) : calls[c].pc \in {"done", "threw"}
    /\ timeseriesData' = sortByDate(pushAll(1, Len(availableDates)), <<>>)
    /\ spc' = "returned"
    /\ UNCHANGED <<startDate, days, availableDates, xvars, loaderVars, sampleVars,
                   corrVars, appVars>>

\* A fresh loader and a time series to load
InitSeries ==
    /\ dataCache = <<>>
    /\ heap = <<>>
    /\ basePath = DefaultRoot
    /\ resolvedBasePath = NoRoot
    /\ calls = [c \in SeriesSlots |-> IdleCall]
    /\ override = NoRoot
    /\ overrides = 0
    /\ fetchCount = [d \in SeriesDates |-> 0]
    /\ csvText = <<>>
    /\ pollutantName = <<>>
    /\ rawData = <<>>
    /\ points = <<>>
    /\ xpc = "none"
    /\ startDate \in SeriesStarts
    /\ days \in 1..MaxDays
    /\ availableDates = <<>>
    /\ timeseriesData = <<>>
    /\ spc = "ready"
    /\ sampleInput = <<>>
    /\ maxPoints = 0
    /\ sampleRate = 0
    /\ sampledData = <<>>
    /\ smpc = "none"
    /\ corrData = <<>>
    /\ variables = <<>>
    /\ matrix = <<>>
    /\ cpc = "none"
    /\ thisCurrentDate = <<>>
    /\ thisRawData = 0
    /\ loads = <<>>
    /\ isAnimating = FALSE
    /\ dateIndex = 0

NextSeries ==
    \/ StartLoadConsecutiveDays
    \/ \E c \in SeriesSlots, o \in FetchOutcomes : SettleFirst(c, o)
    \/ \E c \in SeriesSlots, o \in ProbeOutcomes : SettleProbe(c, o)
    \/ \E c \in SeriesSlots, o \in FetchOutcomes : SettleRetry(c, o)
    \/ FinishLoadConsecutiveDays

SpecSeries == InitSeries /\ [][NextSeries]_vars

\* ------------------------------------------------------------------ samplers
\* data.filter((d, i) => i % step === 0), i being the index of the head
RECURSIVE everyNth(_, _, _)
everyNth(items, i, step) ==
    IF items = <<>> THEN <<>>
    ELSE (IF i % step = 0 THEN <<Head(items)>> ELSE <<>>)
            \o everyNth(Tail(items), i + 1, step)

\* A step that is rounded down
stepFloor(count, maxCount) == count \div maxCount

\* Math.ceil(length / maxPoints) on two positive integers
stepOf(count, maxCount) == (count + maxCount - 1) \div maxCount

\* DataLoader.sampleData.  What a sampleData returns is the array given to
\* it (same) or a new one
loaderSampleData(items, maxCount) ==
    IF Len(items) <= maxCount THEN [same |-> TRUE, items |-> items]
    ELSE [same |-> FALSE, items |-> everyNth(items, 0, stepOf(Len(items), maxCount))]

\* Array.from(grid.values()) of a Map filled with grid.has / grid.set: the
\* first item of each key, in the order the keys were first seen
RECURSIVE gridValues(_, _)
gridValues(keyed, seen) ==
    IF keyed = <<>> THEN <<>>
    ELSE IF Head(keyed)[1] \in seen THEN gridValues(Tail(keyed), seen)
    ELSE <<Head(keyed)[2]>> \o gridValues(Tail(keyed), seen \cup {Head(keyed)[1]})

\* A second sampling that takes the first maxCount items
thinnedToFirst(items, maxCount) ==
    IF Len(items) > maxCount THEN SubSeq(items, 1, maxCount) ELSE items

\* The second sampling of the grid samplers
thinned(items, maxCount) ==
    IF Len(items) > maxCount
    THEN everyNth(items, 0, stepOf(Len(items), maxCount))
    ELSE items

gridSize == 50

\* this.bounds of the map canvas
minLat == 18

maxLat == 54

minLon == 70

\* Math.floor((x - low) / cellSize) with cellSize = extent / gridSize, in
\* exact arithmetic; a cell size of zero makes the quotient 0 / 0
gridIndex(x, low, extent) ==
    IF extent = 0 THEN NaNCell ELSE NumCell(((x - low) * gridSize) \div extent)

\* The cell of the map canvas a point falls into: gridX from its latitude,
\* gridY from its longitude, both with the cell size of the latitudes
mapCell(d) ==
    <<gridIndex(d.lat, minLat, maxLat - minLat),
      gridIndex(d.lon, minLon, maxLat - minLat)>>

\* The grid stage of the map canvas: of every third item, the first item of
\* each cell of the fixed grid
mapGrid(items) ==
    LET coarse == everyNth(items, 0, 3)
    IN  gridValues([i \in 1..Len(coarse) |-> <<mapCell(coarse[i]), coarse[i]>>], {})

\* CanvasMapVisualization.sampleData: the grid stage, then every step-th of
\* what it kept
mapSampleData(items, maxCount) ==
    IF Len(items) <= maxCount THEN [same |-> TRUE, items |-> items]
    ELSE [same |-> FALSE, items |-> thinned(mapGrid(items), maxCount)]

\* d3.extent over a non-empty sequence of numbers: the least and the
\* greatest of them
RECURSIVE extent(_)
extent(ns) ==
    IF Len(ns) = 1 THEN <<ns[1], ns[1]>>
    ELSE LET rest == extent(Tail(ns))
         IN  <<IF ns[1] <= rest[1] THEN ns[1] ELSE rest[1],
               IF ns[1] >= rest[2] THEN ns[1] ELSE rest[2]>>

\* The cell of the wind-field canvas a point falls into, the grid being laid
\* over the extent of the data
windCell(items, d) ==
    LET latRange == extent([i \in 1..Len(items) |-> items[i].lat])
        lonRange == extent([i \in 1..Len(items) |-> items[i].lon])
    IN  <<gridIndex(d.lat, latRange[1], latRange[2] - latRange[1]),
          gridIndex(d.lon, lonRange[1], lonRange[2] - lonRange[1])>>

\* The grid stage of the wind-field canvas: the first item of each cell
windGrid(items) ==
    gridValues([i \in 1..Len(items) |-> <<windCell(items, items[i]), items[i]>>], {})

\* WindfieldCanvasVisualization.sampleData: the grid stage, then every
\* step-th of what it kept
windSampleData(items, maxCount) ==
    IF Len(items) <= maxCount THEN [same |-> TRUE, items |-> items]
    ELSE [same |-> FALSE, items |-> thinned(windGrid(items), maxCount)]

\* The points sampled: two in one row of the grid, two in other rows
SamplePoints ==
    { [lat |-> 20, lon |-> 100], [lat |-> 20, lon |-> 110],
      [lat |-> 30, lon |-> 100], [lat |-> 40, lon |-> 120] }

\* Some points and a limit to sample them to
InitSample ==
    /\ dataCache = <<>>
    /\ heap = <<>>
    /\ basePath = DefaultRoot
    /\ resolvedBasePath = NoRoot
    /\ calls = [c \in Slots |-> IdleCall]
    /\ override = NoRoot
    /\ overrides = 0
    /\ fetchCount = [d \in Dates |-> 0]
    /\ csvText = <<>>
    /\ pollutantName = <<>>
    /\ rawData = <<>>
    /\ points = <<>>
    /\ xpc = "none"
    /\ startDate = <<>>
    /\ days = 0
    /\ availableDates = <<>>
    /\ timeseriesData = <<>>
    /\ spc = "none"
    /\ sampleInput \in UNION {[1..n -> SamplePoints] : n \in 0..MaxPoints}
    /\ maxPoints \in 1..MaxCount
    /\ sampleRate = 0
    /\ sampledData = <<>>
    /\ smpc = "input"
    /\ corrData = <<>>
    /\ variables = <<>>
    /\ matrix = <<>>
    /\ cpc = "none"
    /\ thisCurrentDate = <<>>
    /\ thisRawData = 0
    /\ loads = <<>>
    /\ isAnimating = FALSE
    /\ dateIndex = 0

\* A caller of the loader samples
SampleLoader ==
    /\ smpc = "input"
    /\ sampledData' = loaderSampleData(sampleInput, maxPoints)
    /\ smpc' = "loader"
    /\ UNCHANGED <<sampleInput, maxPoints, sampleRate, loaderVars, xvars, seriesVars,
                   corrVars, appVars>>

\* The map canvas samples what it draws
SampleMap ==
    /\ smpc = "input"
    /\ sampledData' = mapSampleData(sampleInput, maxPoints)
    /\ smpc' = "map"
    /\ UNCHANGED <<sampleInput, maxPoints, sampleRate, loaderVars, xvars, seriesVars,
                   corrVars, appVars>>

\* The wind-field canvas samples what it draws
SampleWind ==
    /\ smpc = "input"
    /\ sampledData' = windSampleData(sampleInput, maxPoints)
    /\ smpc' = "wind"
    /\ UNCHANGED <<sampleInput, maxPoints, sampleRate, loaderVars, xvars, seriesVars,
                   corrVars, appVars>>

NextSample == SampleLoader \/ SampleMap \/ SampleWind

SpecSample == InitSample /\ [][NextSample]_vars

\* ------------------------------------------------------------------ correlation
NullCell == [t |-> "null", n |-> 0, s |-> <<>>]

LowerCase ==
    <<"a", "b", "c", "d", "e", "f", "g", "h", "i", "j", "k", "l", "m",
      "n", "o", "p", "q", "r", "s", "t", "u", "v", "w", "x", "y", "z">>

UpperCase ==
    <<"A", "B", "C", "D", "E", "F", "G", "H", "I", "J", "K", "L", "M",
      "N", "O", "P", "Q", "R", "S", "T", "U", "V", "W", "X", "Y", "Z">>

\* String.prototype.toUpperCase
toUpperCase(str) ==
    [i \in 1..Len(str) |->
        IF \E k \in 1..26 : LowerCase[k] = str[i]
        THEN UpperCase[CHOOSE k \in 1..26 : LowerCase[k] = str[i]]
        ELSE str[i]]

\* getColumnName(sample, varName): the first key that includes the name or
\* the name in upper case, else null
RECURSIVE firstNaming(_, _)
firstNaming(keys, varName) ==
    IF keys = <<>> THEN NoKey
    ELSE IF Includes(Head(keys), varName) \/ Includes(Head(keys), toUpperCase(varName))
         THEN Head(keys)
         ELSE firstNaming(Tail(keys), varName)

getColumnName(sample, varName) == firstNaming(Keys(sample), varName)

\* The units extractValue appends to a name; (ug) stands for the unit of
\* mass concentration the data files write in Chinese
UNIT_UG == <<"(", "u", "g", ")">>

UNIT_MG == <<"(", "m", "g", "/", "m", "3", ")">>

\* Number(value) of a cell
Number(c) ==
    CASE c.t = "num" -> c
      [] c.t = "inf" -> c
      [] c.t = "str" -> IF Trim(c.s) = <<>> THEN NumCell(0)
                        ELSE IF isNaN(c) THEN NaNCell
                        ELSE parseFloat(c)
      [] OTHER -> NaNCell

\* extractValue(d, varName)
extractValue(d, varName) ==
    LET value == OrElse(Get(d, varName),
                   OrElse(Get(d, getColumnName(d, varName)),
                     OrElse(Get(d, varName \o UNIT_UG),
                            Get(d, varName \o UNIT_MG))))
    IN  IF value = Undefined \/ isNaN(value) THEN NullCell ELSE Number(value)

\* data.map(d => this.extractValue(d, v)).filter(val => val !== null)
RECURSIVE valuesOf(_, _)
valuesOf(records, varName) ==
    IF records = <<>> THEN <<>>
    ELSE (IF extractValue(Head(records), varName) # NullCell
          THEN <<extractValue(Head(records), varName)>> ELSE <<>>)
            \o valuesOf(Tail(records), varName)

\* Arithmetic of numbers that may be infinite or NaN
signOf(k) == IF k > 0 THEN 1 ELSE IF k < 0 THEN -1 ELSE 0

plus(a, b) ==
    CASE a.t = "nan" \/ b.t = "nan" -> NaNCell
      [] a.t = "inf" /\ b.t = "inf" -> IF a.n = b.n THEN a ELSE NaNCell
      [] a.t = "inf" /\ b.t = "num" -> a
      [] a.t = "num" /\ b.t = "inf" -> b
      [] OTHER -> NumCell(a.n + b.n)

minus(a, b) == plus(a, IF b.t = "nan" THEN b ELSE [b EXCEPT !.n = 0 - b.n])

times(a, b) ==
    CASE a.t = "nan" \/ b.t = "nan" -> NaNCell
      [] a.t = "num" /\ b.t = "num" -> NumCell(a.n * b.n)
      [] a.n = 0 \/ b.n = 0 -> NaNCell
      [] OTHER -> InfCell(signOf(a.n) * signOf(b.n))

RECURSIVE sum(_)
sum(xs) == IF xs = <<>> THEN NumCell(0) ELSE plus(Head(xs), sum(Tail(xs)))

RECURSIVE gcd(_, _)
gcd(a, b) == IF b = 0 THEN a ELSE gcd(b, a % b)

\* sign * sqrt(p / q) with p / q in lowest terms: the quotient of a number
\* and the root of a positive number, kept exact
RootCell(sign, p, q) == [t |-> "root", n |-> sign, s |-> <<p \div gcd(p, q), q \div gcd(p, q)>>]

\* numerator / Math.sqrt(product), product not being zero
quotient(numerator, product) ==
    CASE numerator.t = "nan" \/ product.t = "nan" -> NaNCell
      [] product.t = "inf" -> IF numerator.t = "inf" THEN NaNCell ELSE NumCell(0)
      [] numerator.t = "inf" -> numerator
      [] numerator.n = 0 -> NumCell(0)
      [] OTHER -> RootCell(signOf(numerator.n), numerator.n * numerator.n, product.n)

\* A coefficient whose denominator takes the first variable twice
correlationOneSided(x, y) ==
    IF Len(x) # Len(y) \/ Len(x) = 0 THEN NumCell(0)
    ELSE
        LET count == NumCell(Len(x))
            dx == [i \in 1..Len(x) |-> minus(times(count, x[i]), sum(x))]
            dy == [i \in 1..Len(x) |-> minus(times(count, y[i]), sum(y))]
            numerator == sum([i \in 1..Len(x) |-> times(dx[i], dy[i])])
            sumSqX == sum([i \in 1..Len(x) |-> times(dx[i], dx[i])])
            product == times(sumSqX, sumSqX)
        IN  IF product = NumCell(0) THEN NumCell(0)
            ELSE quotient(numerator, product)

\* correlation(x, y).  The deviations are taken times the count, n * x[i] -
\* sum(x) for x[i] - mean(x), which scales numerator and denominator alike
\* and keeps them whole numbers; the arithmetic is exact, without the
\* rounding of floating point.
correlation(x, y) ==
    IF Len(x) # Len(y) \/ Len(x) = 0 THEN NumCell(0)
    ELSE
        LET count == NumCell(Len(x))
            dx == [i \in 1..Len(x) |-> minus(times(count, x[i]), sum(x))]
            dy == [i \in 1..Len(x) |-> minus(times(count, y[i]), sum(y))]
            numerator == sum([i \in 1..Len(x) |-> times(dx[i], dy[i])])
            sumSqX == sum([i \in 1..Len(x) |-> times(dx[i], dx[i])])
            sumSqY == sum([i \in 1..Len(x) |-> times(dy[i], dy[i])])
            product == times(sumSqX, sumSqY)
        IN  IF product = NumCell(0) THEN NumCell(0)
            ELSE quotient(numerator, product)

\* computeCorrelationMatrix(data, variables)
computeCorrelationMatrix(records, names) ==
    [i \in 1..Len(names) |->
        [j \in 1..Len(names) |->
            IF i = j THEN NumCell(1)
            ELSE correlation(valuesOf(records, names[i]),
                             valuesOf(records, names[j]))]]

K_SO2 == <<"S", "O", "2">>

\* What a record holds for a variable: a number, zero, the marker NA, an
\* infinity
CorrCells == {NumCell(0), NumCell(1), NumCell(2), StrCell(<<"N", "A">>), InfCell(1)}

\* The records: a decorated column and a plain one
CorrRecords ==
    { << <<K_PM_unit, a>>, <<K_SO2, b>> >> : a \in CorrCells, b \in CorrCells }

\* The variable lists: two variables the records hold, and with them one the
\* records do not hold
VariableLists == { <<K_PM, K_SO2>>, <<K_SO2, K_PM10, K_PM>> }

\* Some records and the variables to correlate
InitCorrelation ==
    /\ dataCache = <<>>
    /\ heap = <<>>
    /\ basePath = DefaultRoot
    /\ resolvedBasePath = NoRoot
    /\ calls = [c \in Slots |-> IdleCall]
    /\ override = NoRoot
    /\ overrides = 0
    /\ fetchCount = [d \in Dates |-> 0]
    /\ csvText = <<>>
    /\ pollutantName = <<>>
    /\ rawData = <<>>
    /\ points = <<>>
    /\ xpc = "none"
    /\ startDate = <<>>
    /\ days = 0
    /\ availableDates = <<>>
    /\ timeseriesData = <<>>
    /\ spc = "none"
    /\ sampleInput = <<>>
    /\ maxPoints = 0
    /\ sampleRate = 0
    /\ sampledData = <<>>
    /\ smpc = "none"
    /\ corrData \in UNION {[1..n -> CorrRecords] : n \in 1..MaxRecords}
    /\ variables \in VariableLists
    /\ matrix = <<>>
    /\ cpc = "input"
    /\ thisCurrentDate = <<>>
    /\ thisRawData = 0
    /\ loads = <<>>
    /\ isAnimating = FALSE
    /\ dateIndex = 0

\* The correlation view computes the matrix of the records it is given
ComputeCorrelationMatrix ==
    /\ cpc = "input"
    /\ matrix' = computeCorrelationMatrix(corrData, variables)
    /\ cpc' = "matrix"
    /\ UNCHANGED <<corrData, variables, loaderVars, xvars, seriesVars, sampleVars,
                 appVars>>

NextCorrelation == ComputeCorrelationMatrix

SpecCorrelation == InitCorrelation /\ [][NextCorrelation]_vars

\* ------------------------------------------------------------------ a fetch that hangs
\* The date whose data file the server never answers for
HungDate == D0101

\* The fetch an invocation is waiting for never settles
hangs(c) == calls[c].kind = "day" /\ calls[c].key = HungDate /\ calls[c].pc = "fetch1"

\* The fetches that do settle, of the data file and of the probes
SettleFetch(c) ==
    \/ \E o \in FetchOutcomes : ~hangs(c) /\ SettleFirst(c, o)
    \/ \E o \in ProbeOutcomes : SettleProbe(c, o)
    \/ \E o \in FetchOutcomes : SettleRetry(c, o)

NextHung ==
    \/ \E c \in Slots, d \in Dates : StartLoadDayData(c, d)
    \/ \E c \in Slots : SettleFetch(c)

\* The event loop hands on every fetch that settles: the continuation of an
\* invocation whose fetch has settled is run
SpecHung ==
    /\ Init
    /\ [][NextHung]_vars
    /\ \A c \in Slots : WF_vars(SettleFetch(c))

\* ------------------------------------------------------------------ fetches that settle
\* The fetch an invocation is waiting for settles, with any outcome, and the
\* invocation goes on from its await
Settle(c) ==
    \/ \E o \in FetchOutcomes : SettleFirst(c, o)
    \/ \E o \in ProbeOutcomes : SettleProbe(c, o)
    \/ \E o \in FetchOutcomes : SettleRetry(c, o)
    \/ \E o \in FetchOutcomes : SettleMonth(c, o)

\* Every fetch that is issued settles in the end, and the event loop runs
\* the continuation of the invocation that awaits it
SpecSettling ==
    /\ Init
    /\ [][Next]_vars
    /\ \A c \in Slots : WF_vars(Settle(c))

\* ------------------------------------------------------------------ series sampling
\* The length up to which sampleTimeseriesData returns its data as they are
SeriesLimit == 10000

\* Array.prototype.filter with the test i % step === 0 on the elements
\* lo..hi of an array, i being the index of the element counted from 0: the
\* elements that pass, in their order
RECURSIVE filterByStride(_, _, _, _)
filterByStride(items, lo, hi, step) ==
    IF lo > hi THEN <<>>
    ELSE IF lo = hi
         THEN (IF (lo - 1) % step = 0 THEN <<items[lo]>> ELSE <<>>)
         ELSE LET mid == (lo + hi) \div 2
              IN  filterByStride(items, lo, mid, step)
                    \o filterByStride(items, mid + 1, hi, step)

\* A sampler that thins a series of any length
sampleTimeseriesDataAlways(data, rate) ==
    [same |-> FALSE, items |-> filterByStride(data, 1, Len(data), rate)]

\* DataLoader.sampleTimeseriesData
sampleTimeseriesData(data, rate) ==
    IF Len(data) <= SeriesLimit THEN [same |-> TRUE, items |-> data]
    ELSE [same |-> FALSE, items |-> filterByStride(data, 1, Len(data), rate)]

\* A series about as long as the limit, every element of it known by its
\* index, and a sampleRate
InitTimeseriesSample ==
    /\ dataCache = <<>>
    /\ heap = <<>>
    /\ basePath = DefaultRoot
    /\ resolvedBasePath = NoRoot
    /\ calls = [c \in Slots |-> IdleCall]
    /\ override = NoRoot
    /\ overrides = 0
    /\ fetchCount = [d \in Dates |-> 0]
    /\ csvText = <<>>
    /\ pollutantName = <<>>
    /\ rawData = <<>>
    /\ points = <<>>
    /\ xpc = "none"
    /\ startDate = <<>>
    /\ days = 0
    /\ availableDates = <<>>
    /\ timeseriesData = <<>>
    /\ spc = "none"
    /\ sampleInput \in {[i \in 1..n |-> i - 1] :
                          n \in (SeriesLimit - MaxOver)..(SeriesLimit + MaxOver)}
    /\ maxPoints = 0
    /\ sampleRate \in 1..MaxRate
    /\ sampledData = <<>>
    /\ smpc = "input"
    /\ corrData = <<>>
    /\ variables = <<>>
    /\ matrix = <<>>
    /\ cpc = "none"
    /\ thisCurrentDate = <<>>
    /\ thisRawData = 0
    /\ loads = <<>>
    /\ isAnimating = FALSE
    /\ dateIndex = 0

\* The time-series view samples what it draws
SampleTimeseries ==
    /\ smpc = "input"
    /\ sampledData' = sampleTimeseriesData(sampleInput, sampleRate)
    /\ smpc' = "series"
    /\ UNCHANGED <<sampleInput, maxPoints, sampleRate, loaderVars, xvars, seriesVars,
                   corrVars, appVars>>

NextTimeseriesSample == SampleTimeseries

SpecTimeseriesSample == InitTimeseriesSample /\ [][NextTimeseriesSample]_vars

\* ------------------------------------------------------------------ application
\* this.availableDates of the application, of which the model keeps the
\* dates its loader serves
AppDates == <<D0101, D0115>>

\* No loadData is about to resume: the continuation of an await runs before
\* the next event or fetch completion is handled
quiet == \A c \in Slots : ~(loads[c] = "awaiting" /\ calls[c].pc = "done")

\* loadData up to its await: loadDayData is called with this.currentDate as
\* it is at the call
startLoadData(c, date) ==
    /\ quiet
    /\ free(c)
    /\ IF cacheHas(date) THEN returnCached(c, date) ELSE issueFirst(c, date)
    /\ loads' = [loads EXCEPT ![c] = "awaiting"]
    /\ UNCHANGED <<basePath, resolvedBasePath, override, overrides>>
    /\ UNCHANGED <<thisRawData, xvars, seriesVars, sampleVars, corrVars>>

\* The change handler of the date selector
DateSelected(c, date) ==
    /\ thisCurrentDate' = date
    /\ startLoadData(c, date)
    /\ UNCHANGED <<isAnimating, dateIndex>>

\* The change handler of the days selector, and init: loadData for the
\* date that is current
DaysSelected(c) ==
    /\ startLoadData(c, thisCurrentDate)
    /\ UNCHANGED <<thisCurrentDate, isAnimating, dateIndex>>

\* startAnimation: the interval is set up from the date that is current
StartAnimation ==
    /\ quiet
    /\ ~isAnimating
    /\ isAnimating' = TRUE
    /\ dateIndex' = IF \E i \in 1..Len(AppDates) : AppDates[i] = thisCurrentDate
                    THEN CHOOSE i \in 1..Len(AppDates) : AppDates[i] = thisCurrentDate
                    ELSE 1
    /\ UNCHANGED <<thisCurrentDate, thisRawData, loads, loaderVars, xvars, seriesVars,
                   sampleVars, corrVars>>

\* A tick of the interval: the next date becomes current and loadData is
\* called, whether or not the loadData of the tick before has returned
AnimationTick(c) ==
    /\ isAnimating
    /\ dateIndex' = (dateIndex % Len(AppDates)) + 1
    /\ thisCurrentDate' = AppDates[(dateIndex % Len(AppDates)) + 1]
    /\ startLoadData(c, AppDates[(dateIndex % Len(AppDates)) + 1])
    /\ UNCHANGED isAnimating

\* stopAnimation: the interval is cleared
StopAnimation ==
    /\ quiet
    /\ isAnimating
    /\ isAnimating' = FALSE
    /\ UNCHANGED <<thisCurrentDate, thisRawData, loads, dateIndex, loaderVars, xvars,
                   seriesVars, sampleVars, corrVars>>

\* loadData after its await: this.rawData becomes what loadDayData returned,
\* and null when that is empty
ResumeLoadData(c) ==
    /\ loads[c] = "awaiting"
    /\ calls[c].pc = "done"
    /\ thisRawData' = IF heap[calls[c].ret] = <<>> THEN NoRef ELSE calls[c].ret
    /\ loads' = [loads EXCEPT ![c] = "finished"]
    /\ UNCHANGED <<thisCurrentDate, isAnimating, dateIndex, loaderVars, xvars,
                   seriesVars, sampleVars, corrVars>>

\* The application as its constructor leaves it, with a fresh loader
InitApp ==
    /\ dataCache = <<>>
    /\ heap = <<>>
    /\ basePath = DefaultRoot
    /\ resolvedBasePath = NoRoot
    /\ calls = [c \in Slots |-> IdleCall]
    /\ override = NoRoot
    /\ overrides = 0
    /\ fetchCount = [d \in Dates |-> 0]
    /\ csvText = <<>>
    /\ pollutantName = <<>>
    /\ rawData = <<>>
    /\ points = <<>>
    /\ xpc = "none"
    /\ startDate = <<>>
    /\ days = 0
    /\ availableDates = <<>>
    /\ timeseriesData = <<>>
    /\ spc = "none"
    /\ sampleInput = <<>>
    /\ maxPoints = 0
    /\ sampleRate = 0
    /\ sampledData = <<>>
    /\ smpc = "none"
    /\ corrData = <<>>
    /\ variables = <<>>
    /\ matrix = <<>>
    /\ cpc = "none"
    /\ thisCurrentDate = D0101
    /\ thisRawData = NoRef
    /\ loads = [c \in Slots |-> "none"]
    /\ isAnimating = FALSE
    /\ dateIndex = 0

NextApp ==
    \/ \E c \in Slots, d \in Dates : DateSelected(c, d)
    \/ \E c \in Slots : DaysSelected(c)
    \/ StartAnimation
    \/ \E c \in Slots : AnimationTick(c)
    \/ StopAnimation
    \/ \E c \in Slots : ResumeLoadData(c)
    \/ \E c \in Slots, o \in FetchOutcomes : quiet /\ SettleFirst(c, o)
    \/ \E c \in Slots, o \in ProbeOutcomes : quiet /\ SettleProbe(c, o)
    \/ \E c \in Slots, o \in FetchOutcomes : quiet /\ SettleRetry(c, o)

SpecApp == InitApp /\ [][NextApp]_vars

\* ------------------------------------------------------------------ claims
DayCalls == {c \in Slots : calls[c].kind = "day"}

CachedRefs == {dataCache[k] : k \in DOMAIN dataCache}

\* Some call has changed in this step, and c is that call
acts(c) == calls'[c] # calls[c]

\* C1: for every date, however the loadDayData calls for it overlap, its
\* data file is fetched at most once and every caller that has returned
\* holds the same array.
C1_FetchedOnceAndShared ==
    \A d \in Dates :
        /\ fetchCount[d] <= 1
        /\ \A a, b \in DayCalls :
              (calls[a].key = d /\ calls[b].key = d
                 /\ calls[a].pc = "done" /\ calls[b].pc = "done")
              => calls[a].ret = calls[b].ret

\* C2: a loadDayData call that starts when the cache holds an entry for its
\* date completes at once, returns the very array the cache holds, and issues
\* neither a data-file fetch nor a probe.
C2_CacheHitReturnsEntry ==
    [][\A c \in Slots, d \in Dates :
          (calls[c].pc = "idle" /\ acts(c) /\ calls'[c].kind = "day"
             /\ calls'[c].key = d /\ d \in DOMAIN dataCache)
          => /\ calls'[c].pc = "done"
             /\ calls'[c].ret = dataCache[d]
             /\ calls'[c].fetches = 0
             /\ fetchCount' = fetchCount
             /\ dataCache' = dataCache]_vars

\* A later call has returned the array an earlier call loaded and cached,
\* without a fetch of its own.
C2_Witness ==
    \E a, b \in DayCalls :
        /\ a \in calls[b].after /\ calls[a].key = calls[b].key
        /\ calls[a].res = "loaded" /\ calls[b].res = "hit"
        /\ calls[b].ret = calls[a].ret /\ calls[b].fetches = 0

C4_WriteOnce ==
    [][\A k \in DOMAIN dataCache :
          k \in DOMAIN dataCache' /\ dataCache'[k] = dataCache[k]]_vars

\* C5: loadDayData never throws; a call that has completed has returned an
\* array, which is empty when neither attempt could load the data.
C5_NeverThrows ==
    \A c \in DayCalls :
        /\ calls[c].pc # "threw"
        /\ calls[c].pc = "done"
           => /\ calls[c].ret \in 1..Len(heap)
              /\ calls[c].res = "missing" => heap[calls[c].ret] = <<>>

\* A call has completed with an empty array after both attempts failed.
C5_Witness ==
    \E c \in DayCalls :
        /\ calls[c].pc = "done" /\ calls[c].res = "missing"
        /\ calls[c].fetches = 2 /\ heap[calls[c].ret] = <<>>

\* C6: while setBasePath has not been called, a resolved root, once
\* assigned, is not changed.
C6_ResolvedOnce ==
    [][(overrides' = 0 /\ resolvedBasePath # NoRoot)
          => resolvedBasePath' = resolvedBasePath]_vars

\* C7: after an effective setBasePath(p), basePath and resolvedBasePath are
\* both p with its trailing separator.
C7_OverrideWins ==
    override # NoRoot
    => basePath = override /\ resolvedBasePath = override

\* C8: a probe that fails, the last one included, assigns neither basePath
\* nor resolvedBasePath; when the last one has failed the call returns
\* this.basePath and loadDayData goes on to its retry.
C8_AllFailedKeepsRoots ==
    [][\A c \in Slots :
          (calls[c].pc = "probe" /\ acts(c) /\ calls'[c].rkind # "adopted")
          => /\ basePath' = basePath
             /\ resolvedBasePath' = resolvedBasePath
             /\ calls'[c].pc = "fetch2"
                => /\ calls'[c].rkind = "allFailed"
                   /\ calls'[c].rret = basePath
                   /\ calls[c].idx = Len(calls[c].cands)]_vars

\* Every candidate of a call has failed and the call has gone on to retry.
C8_Witness ==
    \E c \in DayCalls :
        /\ calls[c].rkind = "allFailed"
        /\ calls[c].idx = Len(Fallbacks) + 1
        /\ calls[c].rret = basePath

\* The columns of the records that contain the trimmed variable name
relatedKeys(data, name) ==
    {k \in {Keys(data[1])[i] : i \in 1..Len(data[1])} : Includes(k, Trim(name))}

\* The name followed by a parenthesised unit
isDecorated(key, name) ==
    /\ StartsWith(key, Trim(name) \o <<"(">>)
    /\ key[Len(key)] = ")"
    /\ Len(key) > Len(Trim(name)) + 2

\* The cells of a column that are numbers, in record order
RECURSIVE numericCells(_, _)
numericCells(data, key) ==
    IF data = <<>> THEN <<>>
    ELSE IF Get(Head(data), key).t \in {"num", "inf"}
         THEN <<Get(Head(data), key)>> \o numericCells(Tail(data), key)
         ELSE numericCells(Tail(data), key)

\* The values of the points that are numbers, in order
RECURSIVE numericValues(_)
numericValues(ps) ==
    IF ps = <<>> THEN <<>>
    ELSE IF Head(ps).value.t \in {"num", "inf"}
         THEN <<Head(ps).value>> \o numericValues(Tail(ps))
         ELSE numericValues(Tail(ps))

\* C9: every point extractPollutantData returns has a value that is a finite
\* number.
C9_ValuesFinite ==
    xpc = "points"
    => \A i \in 1..Len(points) : points[i].value.t = "num"

\* C10: when the only column containing the variable name is the name with a
\* parenthesised unit, that column is resolved, the records whose cell there
\* is a number give one point each, in order and with that number as value,
\* and no record whose cell is a non-numeric string such as NA gives a point.
C10_DecoratedColumn ==
    (xpc = "points" /\ rawData # <<>>
       /\ \E k \in relatedKeys(rawData, pollutantName) :
             relatedKeys(rawData, pollutantName) = {k}
               /\ isDecorated(k, pollutantName))
    => LET k == CHOOSE k \in relatedKeys(rawData, pollutantName) : TRUE
       IN  /\ numericValues(points) = numericCells(rawData, k)
           /\ \A i \in 1..Len(points) :
                 ~(points[i].value.t = "str" /\ points[i].value.s # <<>>)

\* The scenario of the spec: a decorated column, a record with 55 and a
\* record with NA; one point, with value 55.
C10_Witness ==
    /\ xpc = "points"
    /\ Len(rawData) = 2
    /\ relatedKeys(rawData, pollutantName) = {K_PM_unit}
    /\ Get(rawData[1], K_PM_unit) = NumCell(55)
    /\ Get(rawData[2], K_PM_unit) = StrCell(<<"N", "A">>)
    /\ Len(points) = 1
    /\ points[1].value = NumCell(55)

\* C11: loadConsecutiveDays enumerates no date before 20130101 and calls
\* loadDayData for none.
C11_NotBeforeLowerBound ==
    /\ \A i \in 1..Len(availableDates) : ~strLess(availableDates[i], LowerBound)
    /\ spc \in {"loading", "returned"}
       => \A c \in DOMAIN calls :
             calls[c].kind = "day" => ~strLess(calls[c].key, LowerBound)

\* C12: loadConsecutiveDays enumerates at most days dates, which are the
\* consecutive calendar days going backward from startDate.
C12_AtMostDays ==
    spc \in {"loading", "returned"}
    => /\ Len(availableDates) <= days
       /\ \A i \in 1..Len(availableDates) :
             availableDates[i]
               = formatDate(setDate(parseDate(startDate),
                                    getDate(parseDate(startDate)) - (i - 1)))

\* C13: what loadConsecutiveDays returns is ordered by date, newest first,
\* in whatever order the loads of the days completed.
C13_SortedDescending ==
    spc = "returned"
    => \A i \in 1..(Len(timeseriesData) - 1) :
          ~strLess(Get(timeseriesData[i], K_date).s,
                   Get(timeseriesData[i + 1], K_date).s)

\* The load of the newest day completed after the load of the day before it,
\* and the series returned holds the records of both, the newest first.
C13_Witness ==
    /\ spc = "returned"
    /\ Len(availableDates) >= 2
    /\ calls[1].res = "loaded" /\ calls[2].res = "loaded"
    /\ calls[1].ret > calls[2].ret
    /\ Len(timeseriesData) >= 2
    /\ Get(timeseriesData[1], K_date).s = availableDates[1]
    /\ Get(timeseriesData[2], K_date).s = availableDates[2]

\* C14: a sampler returns at most maxPoints items, every one of them an item
\* of its input, and returns the input itself when the input has at most
\* maxPoints items.
C14_SampleBounded ==
    smpc \in {"loader", "map", "wind"}
    => /\ Len(sampledData.items) <= maxPoints
       /\ \A i \in 1..Len(sampledData.items) :
             \E j \in 1..Len(sampleInput) : sampledData.items[i] = sampleInput[j]
       /\ Len(sampleInput) <= maxPoints
          => sampledData.same /\ sampledData.items = sampleInput

\* The wind-field sampler was given four points in four cells and a limit
\* of two: the grid kept all four and the second sampling every other one.
C14_Witness ==
    /\ smpc = "wind"
    /\ Len(sampleInput) = 4 /\ maxPoints = 2
    /\ ~sampledData.same
    /\ sampledData.items = <<sampleInput[1], sampleInput[3]>>
    /\ Cardinality({sampleInput[i] : i \in 1..4}) = 4

RECURSIVE pairedRecords(_, _, _)
pairedRecords(records, a, b) ==
    IF records = <<>> THEN <<>>
    ELSE (IF extractValue(Head(records), a) # NullCell
               /\ extractValue(Head(records), b) # NullCell
          THEN <<Head(records)>> ELSE <<>>)
            \o pairedRecords(Tail(records), a, b)

\* No record holds an infinity
allFinite(records) ==
    \A r \in 1..Len(records) : \A k \in 1..Len(records[r]) : records[r][k][2].t # "inf"

\* C16: the coefficient of two variables is the coefficient of the pairs of
\* values of the records in which both variables resolve to a number (the
\* values being finite).
C16_PairedValues ==
    (cpc = "matrix" /\ allFinite(corrData))
    => \A i, j \in 1..Len(variables) :
          i # j
          => matrix[i][j]
               = correlation(
                   valuesOf(pairedRecords(corrData, variables[i], variables[j]),
                            variables[i]),
                   valuesOf(pairedRecords(corrData, variables[i], variables[j]),
                            variables[j]))

\* All the values are one and the same finite number
isConstant(xs) ==
    \A i \in 1..Len(xs) : xs[i].t = "num" /\ xs[i] = xs[1]

\* C17: the coefficient is never NaN, and it is 0 when one of the two
\* variables has no values or values without variance.
C17_DegenerateIsZero ==
    cpc = "matrix"
    => \A i, j \in 1..Len(variables) :
          i # j
          => /\ matrix[i][j].t # "nan"
             /\ (isConstant(valuesOf(corrData, variables[i]))
                   \/ isConstant(valuesOf(corrData, variables[j])))
                => matrix[i][j] = NumCell(0)

\* C18: while the fetch for one date hangs for ever, a loadDayData call for
\* another date, started before or after it, completes with a result.
C18_OthersComplete ==
    \A c \in Slots :
        (calls[c].kind = "day" /\ calls[c].key # HungDate)
        ~> (calls[c].pc = "done")

\* The load of the date that hangs was started first and is still waiting;
\* the load of another date, started after it, has completed.
C18_Witness ==
    /\ calls[1].key = HungDate /\ calls[1].pc = "fetch1"
    /\ calls[2].kind = "day" /\ calls[2].key # HungDate
    /\ calls[2].pc = "done" /\ calls[2].res = "loaded"

\* The step of an invocation that issues its retry: the second fetch of the
\* data file, from the root in force, the first attempt having given nothing
retryIssued(c) ==
    /\ calls'[c].pc = "fetch2"
    /\ calls'[c].fetches = 2
    /\ fetchCount'[calls[c].key] = fetchCount[calls[c].key] + 1
    /\ calls'[c].root = rootInForce(resolvedBasePath', basePath')
    /\ heap' = heap /\ dataCache' = dataCache

\* C19: a loadDayData call fetches its data file at most twice.  Its first
\* fetch ends either in the loaded result, with no further fetch, or in the
\* root resolution, which gives nothing and is followed by one retry from the
\* root then in force; the retry ends the call.
C19_OneRetry ==
    [][\A c \in Slots :
          (acts(c) /\ calls[c].kind = "day")
          => /\ calls'[c].fetches <= 2
             /\ calls[c].pc = "fetch1"
                => \/ /\ calls'[c].pc = "done" /\ calls'[c].res = "loaded"
                      /\ calls'[c].fetches = 1 /\ fetchCount' = fetchCount
                   \/ /\ calls'[c].pc = "probe"
                      /\ calls'[c].fetches = 1 /\ fetchCount' = fetchCount
                      /\ heap' = heap /\ dataCache' = dataCache
                   \/ retryIssued(c)
             /\ calls[c].pc = "probe"
                => \/ /\ calls'[c].pc = "probe"
                      /\ calls'[c].fetches = 1 /\ fetchCount' = fetchCount
                   \/ retryIssued(c)
             /\ calls[c].pc = "fetch2"
                => /\ calls'[c].pc = "done"
                   /\ calls'[c].fetches = 2 /\ fetchCount' = fetchCount]_vars

\* A call whose first fetch failed adopted the second candidate and loaded
\* its data by the retry.
C19_Witness ==
    \E c \in DayCalls :
        /\ calls[c].pc = "done" /\ calls[c].res = "loaded"
        /\ calls[c].fetches = 2
        /\ heap[calls[c].ret] # <<>>
        /\ resolvedBasePath = Fallbacks[2]

\* C20: one resolveBasePathIfNeeded call probes nothing when a root is
\* resolved as it is called; else it probes the configured root and then the
\* fallbacks in their order, one at a time, the next when the one before has
\* failed, adopts the first that answers ok and probes no more.
C20_ProbesInOrder ==
    [][\A c \in Slots :
          (acts(c) /\ calls[c].kind = "day")
          => /\ (calls[c].pc = "fetch1" /\ calls'[c].pc = "probe")
                => /\ resolvedBasePath = NoRoot
                   /\ calls'[c].idx = 1
                   /\ Len(calls'[c].cands) = Len(Fallbacks) + 1
                   /\ calls'[c].cands[1] = basePath
                   /\ \A k \in 1..Len(Fallbacks) : calls'[c].cands[k + 1] = Fallbacks[k]
             /\ (calls[c].pc = "fetch1" /\ resolvedBasePath # NoRoot)
                => calls'[c].pc # "probe"
             /\ calls[c].pc = "probe"
                => \/ /\ calls'[c].pc = "probe"
                      /\ calls'[c].idx = calls[c].idx + 1
                      /\ calls'[c].idx <= Len(calls[c].cands)
                      /\ calls'[c].cands = calls[c].cands
                      /\ resolvedBasePath' = resolvedBasePath
                   \/ /\ calls'[c].pc = "fetch2" /\ calls'[c].rkind = "adopted"
                      /\ resolvedBasePath' = rootNorm(calls[c].cands[calls[c].idx])
                      /\ basePath' = resolvedBasePath'
                   \/ /\ calls'[c].pc = "fetch2" /\ calls'[c].rkind = "allFailed"
                      /\ calls[c].idx = Len(calls[c].cands)
             /\ calls[c].pc \in {"fetch2", "done"}
                => calls'[c].pc # "probe"]_vars

\* The first two candidates of a call have failed and the third, the second
\* fallback, has answered ok and been adopted.
C20_Witness ==
    \E c \in DayCalls :
        /\ calls[c].pc = "fetch2" /\ calls[c].rkind = "adopted"
        /\ calls[c].idx = 3
        /\ calls[c].rret = Fallbacks[2]
        /\ calls[c].cands[1] = CustomRoot

\* C21: every record of the array the cache holds under a date carries that
\* date, its first six digits as yearMonth and its last two as day, in every
\* state in which the entry is there.
C21_CachedRecordsStamped ==
    \A d \in Dates :
        d \in DOMAIN dataCache
        => \A i \in 1..Len(heap[dataCache[d]]) :
              LET row == heap[dataCache[d]][i]
              IN  /\ Get(row, K_date) = StrCell(d)
                  /\ Get(row, K_yearMonth) = StrCell(SubSeq(d, 1, 6))
                  /\ Get(row, K_day) = StrCell(SubSeq(d, 7, 8))

\* The cache holds the record of the file of 20130115, stamped with the
\* fifteenth of January 2013, beside its coordinates.
C21_Witness ==
    /\ D0115 \in DOMAIN dataCache
    /\ Len(heap[dataCache[D0115]]) = 1
    /\ Get(heap[dataCache[D0115]][1], K_day) = StrCell(<<"1", "5">>)
    /\ Get(heap[dataCache[D0115]][1], K_yearMonth)
         = StrCell(<<"2", "0", "1", "3", "0", "1">>)
    /\ Get(heap[dataCache[D0115]][1], K_lat) = NumCell(30)

\* The column the strategy order names: the column called like the variable,
\* else the variable's name with its surrounding white space removed, else
\* the first column that is the name followed by a unit, else the first
\* column, in stored order, that contains the name; NoKey when there is none
RECURSIVE firstDecorated(_, _)
firstDecorated(keys, name) ==
    IF keys = <<>> THEN NoKey
    ELSE IF isDecorated(Head(keys), name) THEN Head(keys)
    ELSE firstDecorated(Tail(keys), name)

columnByStrategy(data, name) ==
    LET row == data[1]
    IN  IF hasOwnProperty(row, name) THEN name
        ELSE IF hasOwnProperty(row, Trim(name)) THEN Trim(name)
        ELSE IF firstDecorated(Keys(row), name) # NoKey
             THEN firstDecorated(Keys(row), name)
        ELSE firstIncluding(Keys(row), Trim(name))

\* C22: the points come from the column the strategy order names: the exact
\* column before any column that merely contains the name, a white-space or
\* unit-suffix variant before a column found by substring, the first column
\* containing the name only when there is no such variant; and there are no
\* points when no column matches.
C22_StrategyOrder ==
    (xpc = "points" /\ rawData # <<>>)
    => LET key == columnByStrategy(rawData, pollutantName)
       IN  IF key = NoKey THEN points = <<>>
           ELSE points
                  = filterPoints([i \in 1..Len(rawData) |-> toPoint(rawData[i], key)])

C24_FixedStride ==
    smpc = "series"
    => IF Len(sampleInput) <= 10000
       THEN sampledData.same /\ sampledData.items = sampleInput
       ELSE /\ ~sampledData.same
            /\ Len(sampledData.items) = ((Len(sampleInput) - 1) \div sampleRate) + 1
            /\ \A k \in 1..Len(sampledData.items) :
                  sampledData.items[k] = sampleInput[(k - 1) * sampleRate + 1]

\* A series of 10001 elements was sampled at a rate of 3: 3334 elements,
\* the second of them the element at index 3.
C24_Witness ==
    /\ smpc = "series"
    /\ Len(sampleInput) = 10001 /\ sampleRate = 3
    /\ Len(sampledData.items) = 3334
    /\ sampledData.items[2] = 3
    /\ sampledData.items[3334] = 9999

\* A grid sampler has run on more items than maxPoints
gridSampled == smpc \in {"map", "wind"} /\ Len(sampleInput) > maxPoints

\* What its grid stage kept
gridKept == IF smpc = "map" THEN mapGrid(sampleInput) ELSE windGrid(sampleInput)

\* The cell its grid stage put a point into
cellOf(d) == IF smpc = "map" THEN mapCell(d) ELSE windCell(sampleInput, d)

\* The positions of the input its grid stage looked at
gridLooked ==
    {i \in 1..Len(sampleInput) : smpc = "map" => (i - 1) % 3 = 0}

\* C25 as stated: when the grid stage has kept more than maxPoints points,
\* the sampler returns exactly maxPoints points.
C25_ExactlyMaxCount ==
    (gridSampled /\ Len(gridKept) > maxPoints)
    => Len(sampledData.items) = maxPoints

\* C25 amended: when the grid stage has kept n points, more than maxPoints,
\* the sampler returns every step-th of them from the first on, step being n
\* over maxPoints rounded up: n over step points, rounded up, which is at
\* most maxPoints.
C25_StrideOfCeiling ==
    (gridSampled /\ Len(gridKept) > maxPoints)
    => LET n == Len(gridKept)
           step == (n + maxPoints - 1) \div maxPoints
       IN  /\ Len(sampledData.items) = (n + step - 1) \div step
           /\ Len(sampledData.items) <= maxPoints
           /\ \A k \in 1..Len(sampledData.items) :
                 sampledData.items[k] = gridKept[(k - 1) * step + 1]

\* The grid stage of the wind-field sampler kept four points for a limit of
\* three; the sampler returned the first and the third of them.
C25_Witness ==
    /\ smpc = "wind"
    /\ maxPoints = 3
    /\ Len(gridKept) = 4
    /\ sampledData.items = <<gridKept[1], gridKept[3]>>

\* C26: both grid indices of every point the grid stage looks at lie in
\* 0..gridSize-1, with gridSize = 50.
C26_IndexInGrid ==
    gridSampled
    => \A i \in gridLooked :
          \A k \in 1..2 :
             /\ cellOf(sampleInput[i])[k].t = "num"
             /\ cellOf(sampleInput[i])[k].n \in 0..49

\* C27: every cell some input point falls into has exactly one point among
\* those the grid stage kept, and that point is the first point of the input
\* that falls into the cell.
C27_FirstOfEveryCell ==
    gridSampled
    => \A j \in 1..Len(sampleInput) :
          LET inCell == {i \in 1..Len(sampleInput) :
                           cellOf(sampleInput[i]) = cellOf(sampleInput[j])}
              first == CHOOSE i \in inCell : \A h \in inCell : i <= h
              kept == {g \in 1..Len(gridKept) :
                         cellOf(gridKept[g]) = cellOf(sampleInput[j])}
          IN  /\ Cardinality(kept) = 1
              /\ \A g \in kept : gridKept[g] = sampleInput[first]

\* C28: while no loadData is in flight, this.rawData is null or the array
\* loadDayData returned for the date that is current.
C28_RawDataOfCurrentDate ==
    (\A c \in Slots : loads[c] # "awaiting")
    => \/ thisRawData = NoRef
       \/ \E c \in Slots :
             /\ loads[c] = "finished"
             /\ calls[c].key = thisCurrentDate
             /\ calls[c].ret = thisRawData

\* C29: parseCSV gives one record per line after the header line, and in every
\* record the value under the k-th column name of the header line is the k-th
\* field of that line, as a number when it parses as one and as the trimmed
\* string otherwise, also when the header line has empty column names
C29_FieldUnderItsColumn ==
    xpc # "text" =>
        /\ Len(rawData) = Len(csvText) - 1
        /\ \A i \in 1..Len(rawData) : \A k \in 1..Len(csvText[1]) :
              LET name == Trim(csvText[1][k])
                  field == StrCell(Trim(csvText[i + 1][k]))
              IN  (name # <<>> /\ k <= Len(csvText[i + 1]))
                    => Get(rawData[i], name)
                         = IF isNaN(parseFloat(field)) THEN field ELSE parseFloat(field)

\* C30: every loadDayData call returns when each fetch it issues settles in
\* the end, and it issues at most 8 fetches: at most 2 of its data file and
\* at most 6 probes of roots, and no probe when its first fetch gives the
\* data (the call then returns in the step that hands that fetch on).
C30_TerminatesWithinEightFetches ==
    /\ [](\A c \in DayCalls :
            /\ calls[c].fetches <= 2
            /\ calls[c].idx <= 6
            /\ calls[c].fetches + calls[c].idx <= 8)
    /\ [][\A c \in Slots :
            (acts(c) /\ calls[c].pc = "fetch1" /\ calls[c].kind = "day")
            => \/ calls'[c].pc = "probe"
               \/ calls'[c].pc = "fetch2"
               \/ /\ calls'[c].pc = "done"
                  /\ calls[c].idx = 0 /\ calls[c].fetches = 1
                  /\ calls'[c].fetches = 1]_vars
    /\ \A c \in Slots : (calls[c].kind = "day") ~> (calls[c].pc = "done")

\* A call has issued the most fetches it can: its first fetch failed, every
\* one of the six probes failed, and the retry of the data file is out
C30_Witness ==
    \E c \in DayCalls :
        /\ calls[c].pc = "fetch2"
        /\ calls[c].fetches = 2
        /\ calls[c].idx = 6
        /\ calls[c].rkind = "allFailed"

====
